---- MODULE Spec2Model ----
(***************************************************************************)
(* AuthDatabase (src/src/auth-database.ts): a token store over two SQLite  *)
(* relations, tokens(name PK, expiration, token UNIQUE) and                *)
(* rights(name, right, PK(name, right), FK name -> tokens ON DELETE        *)
(* CASCADE).  Every prepared statement runs in autocommit mode, so one     *)
(* statement is one atomic step of the store; a method of the class is a   *)
(* sequence of such statements.                                            *)
(*                                                                         *)
(* Strings are modelled by small values: names by strings, rights by       *)
(* naturals whose order is the collation order of the strings they stand   *)
(* for, token strings by pairs <<prefix, hex digits>>.                     *)
(***************************************************************************)
EXTENDS Integers, Sequences, FiniteSets, TLC

VARIABLES
    tokens,     \* the tokens relation: its rows in rowid order
    rights,     \* the rights relation: a set of rows
    clock,      \* the wall clock, in steps of 1100 ms
    pc,         \* per caller: where it stands in generateToken
    call,       \* per caller: the locals of its generateToken call
    ret,        \* the outcome of the latest call
    created,    \* history: the generateToken calls that returned a record
                \* whose name has not been deleted since
    deleted     \* history: the record deleteToken removed last, and whether
                \* its secret has been generated again since

vars == <<tokens, rights, clock, pc, call, ret, created, deleted>>

(* ------------------------------ bounds --------------------------------- *)

\* The clock advances in steps of 1100 ms, up to MaxClock steps.
MaxClock == 2

\* Longest rights list handed to generateToken.
MaxRightsLen == 2

Callers == {"p", "q"}

Names == {"a", "b"}

Rights == {1, 2}

\* Expirations given explicitly; the never-expiring 0 is what an absent
\* expiration defaults to.
Expirations == {1}

\* Values of crypto.getRandomValues(new Uint8Array(32)).
RandomValues == {0, 1}

RECURSIVE SeqsUpTo(_, _)
SeqsUpTo(S, n) ==
    IF n = 0 THEN {<<>>}
    ELSE LET shorter == SeqsUpTo(S, n - 1)
         IN  shorter \cup {Append(s, x) : s \in {t \in shorter : Len(t) = n - 1}, x \in S}

RightsLists == SeqsUpTo(Rights, MaxRightsLen)

\* AuthDatabaseGenerateTokenOptions: expiration is an optional property.
GenerateTokenOptions ==
    [name : Names, rights : RightsLists]
        \cup [name : Names, rights : RightsLists, expiration : Expirations]

(* --------------------------- pure helpers ------------------------------ *)

SeqToSet(s) == {s[i] : i \in DOMAIN s}

RECURSIVE SelectSeq2(_, _, _)
\* The elements of s at the positions in keep, in order.
SelectSeq2(s, keep, i) ==
    IF i > Len(s) THEN <<>>
    ELSE (IF i \in keep THEN <<s[i]>> ELSE <<>>) \o SelectSeq2(s, keep, i + 1)

RECURSIVE SortedSeq(_)
\* The elements of a finite set of naturals in ascending order.
SortedSeq(S) ==
    IF S = {} THEN <<>>
    ELSE LET m == CHOOSE x \in S : \A y \in S : x <= y
         IN  <<m>> \o SortedSeq(S \ {m})

\* `auth-${uint8ArrayToHex(bytes)}`
TokenString(bytes) == <<"auth-", bytes>>

\* Date.now(), in milliseconds.
DateNow == clock * 1100

\* Math.floor(Date.now() / 1000)

NowSeconds == DateNow \div 1000

TokenStrings == {TokenString(b) : b \in RandomValues} \cup {<<"invalid", 0>>}

(* ------------------------ statements of the store ---------------------- *)

\* SELECT name FROM tokens WHERE name = ?   (positions of the matching rows)
SelectTokenFromName(tk, name) == {i \in DOMAIN tk : tk[i].name = name}

\* The tokens relation without its primary key on name.
InsertTokenErrorNoPrimaryKey(tk, name, token) ==
    IF \E i \in DOMAIN tk : tk[i].token = token
    THEN "UNIQUE constraint failed: tokens.token"
    ELSE ""

\* The tokens relation without UNIQUE on token and without token_index.
InsertTokenErrorNoUnique(tk, name, token) ==
    IF \E i \in DOMAIN tk : tk[i].name = name THEN "UNIQUE constraint failed: tokens.name"
    ELSE ""

\* INSERT INTO tokens (name, expiration, token) VALUES (?, ?, ?)
\* "" when the row is inserted, otherwise the constraint that fails.
InsertTokenError(tk, name, token) ==
    IF \E i \in DOMAIN tk : tk[i].name = name THEN "UNIQUE constraint failed: tokens.name"
    ELSE IF \E i \in DOMAIN tk : tk[i].token = token
    THEN "UNIQUE constraint failed: tokens.token"
    ELSE ""

InsertToken(tk, name, expiration, token) ==
    IF InsertTokenError(tk, name, token) = ""
    THEN Append(tk, [name |-> name, expiration |-> expiration, token |-> token])
    ELSE tk

\* INSERT INTO rights (name, right) VALUES (?, ?)
InsertRightError(tk, rt, name, right) ==
    IF [name |-> name, right |-> right] \in rt
    THEN "UNIQUE constraint failed: rights.name, rights.right"
    ELSE IF SelectTokenFromName(tk, name) = {} THEN "FOREIGN KEY constraint failed"
    ELSE ""

InsertRight(tk, rt, name, right) ==
    IF InsertRightError(tk, rt, name, right) = ""
    THEN rt \cup {[name |-> name, right |-> right]}
    ELSE rt

\* The DELETE without its WHERE clause.
DeleteAllTokens(tk, name) == <<>>

\* A soft delete: the row is counted as deleted and stays.
DeleteTokenFromNameKeepsRow(tk, name) == tk

\* DELETE FROM tokens WHERE name = ?   (the tokens relation afterwards)
DeleteTokenFromName(tk, name) ==
    SelectSeq2(tk, DOMAIN tk \ SelectTokenFromName(tk, name), 1)

\* The delete without PRAGMA foreign_keys = ON: nothing cascades.
CascadeRightsOff(rt, name) == rt

\* The foreign key declared without ON DELETE CASCADE and not enforced.
CascadeRightsNone(rt, name) == rt

\* ON DELETE CASCADE of rights.name, with PRAGMA foreign_keys = ON.
CascadeRights(rt, name) == {r \in rt : r.name # name}

\* SELECT name, expiration FROM tokens
SelectAllTokens(tk) ==
    [i \in DOMAIN tk |-> [name |-> tk[i].name, expiration |-> tk[i].expiration]]

\* SELECT name, expiration FROM tokens WHERE name = ?
SelectNameExpirationFromName(tk, name) ==
    SelectAllTokens(SelectSeq2(tk, SelectTokenFromName(tk, name), 1))

\* The rights query cut to its first row.
SelectFirstRightFromName(rt, name) ==
    LET found == {r.right : r \in {x \in rt : x.name = name}}
    IN  IF found = {} THEN <<>> ELSE <<CHOOSE x \in found : \A y \in found : x <= y>>

\* SELECT right FROM rights WHERE name = ?   (read off the primary-key index)
SelectRightsFromName(rt, name) ==
    SortedSeq({r.right : r \in {x \in rt : x.name = name}})

\* The validity query with expiration >= ? in place of expiration > ?.
SelectTokenFromTokenAndExpirationAtOrAfter(tk, token, seconds) ==
    {i \in DOMAIN tk :
        tk[i].token = token /\ (tk[i].expiration >= seconds \/ tk[i].expiration = 0)}

\* The validity query with its comparison turned round: expiration < ?.
SelectTokenFromTokenAndExpirationBefore(tk, token, seconds) ==
    {i \in DOMAIN tk :
        tk[i].token = token /\ (tk[i].expiration < seconds \/ tk[i].expiration = 0)}

\* SELECT name FROM tokens WHERE token = ? AND (expiration > ? OR expiration = 0)
SelectNotExpiredTokenFromTokenAndExpiration(tk, token, seconds) ==
    {i \in DOMAIN tk :
        tk[i].token = token /\ (tk[i].expiration > seconds \/ tk[i].expiration = 0)}

\* The rights query with the expiration test of the validity query added.
SelectNotExpiredTokenFromTokenAndRight(tk, rt, token, right) ==
    LET sub == {tk[i].name : i \in {j \in DOMAIN tk :
                    /\ tk[j].token = token
                    /\ (tk[j].expiration > NowSeconds \/ tk[j].expiration = 0)}}
    IN  {r \in rt : r.name \in sub /\ r.right = right}

\* SELECT name FROM rights WHERE name = (SELECT name FROM tokens WHERE token = ?)
\*   AND right = ?
SelectTokenFromTokenAndRight(tk, rt, token, right) ==
    LET sub == {tk[i].name : i \in {j \in DOMAIN tk : tk[j].token = token}}
    IN  {r \in rt : r.name \in sub /\ r.right = right}

(* ------------------------- methods as functions ------------------------ *)

\* The existence check made on the rights relation.
hasTokenFromRights(tk, name) == \E r \in rights : r.name = name

\* The existence check with the expiration test of the validity query added.
hasTokenNotExpired(tk, name) ==
    \E i \in SelectTokenFromName(tk, name) :
        tk[i].expiration > NowSeconds \/ tk[i].expiration = 0

hasToken(tk, name) == SelectTokenFromName(tk, name) # {}

getTokenRights(rt, row) ==
    [name |-> row.name,
     expiration |-> row.expiration,
     rights |-> SelectRightsFromName(rt, row.name)]

Undefined == [undefined |-> TRUE]

\* The lookup handing back the whole tokens row next to the rights.
getOptionalTokenWholeRow(tk, rt, name) ==
    LET found == SelectTokenFromName(tk, name)
    IN  IF found = {} THEN Undefined
        ELSE LET row == tk[CHOOSE i \in found : TRUE]
             IN  [name |-> row.name, expiration |-> row.expiration,
                  token |-> row.token, rights |-> SelectRightsFromName(rt, row.name)]

getOptionalToken(tk, rt, name) ==
    LET tokensRows == SelectNameExpirationFromName(tk, name)
    IN  IF tokensRows = <<>> THEN Undefined
        ELSE getTokenRights(rt, tokensRows[1])

listTokens(tk, rt) ==
    LET tokensRows == SelectAllTokens(tk)
    IN  [i \in DOMAIN tokensRows |-> getTokenRights(rt, tokensRows[i])]

verifyTokenValidity(tk, token, seconds) ==
    SelectNotExpiredTokenFromTokenAndExpiration(tk, token, seconds) # {}

verifyTokenRight(tk, rt, token, right) ==
    SelectTokenFromTokenAndRight(tk, rt, token, right) # {}

(* ------------------------------- state --------------------------------- *)

NoToken == <<"", 0>>

NoCall == [opts |-> [name |-> "", rights |-> <<>>], expiration |-> 0,
           token |-> NoToken, i |-> 0]

NoRet == [op |-> "", threw |-> ""]

NoDeleted == [name |-> "", token |-> NoToken, rights |-> {}, again |-> FALSE]

\* The schema script written with DROP TABLE before CREATE TABLE.
CreateTokensTableAfresh(exists, tk) == <<>>

\* CREATE TABLE IF NOT EXISTS tokens (...); CREATE UNIQUE INDEX IF NOT EXISTS
\* token_index: a relation that exists is kept with its rows.
CreateTokensTable(exists, tk) == IF exists THEN tk ELSE <<>>

\* CREATE TABLE IF NOT EXISTS rights (...)
CreateRightsTable(exists, rt) == IF exists THEN rt ELSE {}

Init ==
    /\ tokens = CreateTokensTable(FALSE, <<>>)
    /\ rights = CreateRightsTable(FALSE, {})
    /\ clock = 0
    /\ pc = [c \in Callers |-> "idle"]
    /\ call = [c \in Callers |-> NoCall]
    /\ ret = NoRet
    /\ created = {}
    /\ deleted = NoDeleted

Query(c, r) ==
    /\ pc[c] = "idle"
    /\ ret' = r
    /\ UNCHANGED <<tokens, rights, clock, pc, call, created>>

\* new AuthDatabase(db) over the store that is already set up: #init runs its
\* schema script again and the statements are prepared again.
Construct(c) ==
    /\ pc[c] = "idle"
    /\ tokens' = CreateTokensTable(TRUE, tokens)
    /\ rights' = CreateRightsTable(TRUE, rights)
    /\ ret' = [op |-> "constructor", threw |-> ""]
    /\ UNCHANGED <<clock, pc, call, created>>

(* ------------------------------ generateToken -------------------------- *)

\* Lines 108-115: default of expiration, the existence check.
GenerateTokenBegin(c, opts) ==
    /\ pc[c] = "idle"
    /\ LET expiration == IF "expiration" \in DOMAIN opts THEN opts.expiration ELSE 0
       IN  IF hasToken(tokens, opts.name)
           THEN /\ ret' = [op |-> "generateToken", threw |-> "already exists",
                           name |-> opts.name]
                /\ UNCHANGED <<pc, call>>
           ELSE /\ call' = [call EXCEPT ![c] =
                               [opts |-> opts, expiration |-> expiration,
                                token |-> NoToken, i |-> 0]]
                /\ pc' = [pc EXCEPT ![c] = "insertToken"]
                /\ ret' = NoRet
    /\ UNCHANGED <<tokens, rights, clock, created>>

\* A statement of generateToken throws: the call ends there.
GenerateTokenThrows(c, k, err) ==
    /\ pc' = [pc EXCEPT ![c] = "idle"]
    /\ call' = [call EXCEPT ![c] = NoCall]
    /\ ret' = [op |-> "generateToken", threw |-> err, name |-> k.opts.name]
    /\ UNCHANGED created

\* Lines 125-130: the record handed back.
GenerateTokenReturns(c, k) ==
    /\ pc' = [pc EXCEPT ![c] = "idle"]
    /\ call' = [call EXCEPT ![c] = NoCall]
    /\ ret' = [op |-> "generateToken", threw |-> "", name |-> k.opts.name,
               args |-> k.opts,
               val |-> [name |-> k.opts.name, expiration |-> k.expiration,
                        token |-> k.token, rights |-> k.opts.rights]]
    /\ created' = created \cup
                     {[name |-> k.opts.name, expiration |-> k.expiration,
                       token |-> k.token, rights |-> SeqToSet(k.opts.rights)]}

\* Lines 117-119: the new token and its row.
GenerateTokenInsertToken(c) ==
    /\ pc[c] = "insertToken"
    /\ \E bytes \in RandomValues :
       LET k == [call[c] EXCEPT !.token = TokenString(bytes)]
           err == InsertTokenError(tokens, k.opts.name, k.token)
       IN  /\ tokens' = InsertToken(tokens, k.opts.name, k.expiration, k.token)
           /\ IF err # ""
              THEN GenerateTokenThrows(c, k, err)
              ELSE IF Len(k.opts.rights) = 0
              THEN GenerateTokenReturns(c, k)
              ELSE /\ pc' = [pc EXCEPT ![c] = "insertRight"]
                   /\ call' = [call EXCEPT ![c] = [k EXCEPT !.i = 1]]
                   /\ UNCHANGED <<ret, created>>
    /\ UNCHANGED <<rights, clock>>

\* Lines 121-123: one turn of the loop over rights.
GenerateTokenInsertRight(c) ==
    /\ pc[c] = "insertRight"
    /\ LET k == call[c]
           right == k.opts.rights[k.i]
           err == InsertRightError(tokens, rights, k.opts.name, right)
       IN  /\ rights' = InsertRight(tokens, rights, k.opts.name, right)
           /\ IF err # ""
              THEN GenerateTokenThrows(c, k, err)
              ELSE IF k.i = Len(k.opts.rights)
              THEN GenerateTokenReturns(c, k)
              ELSE /\ call' = [call EXCEPT ![c].i = k.i + 1]
                   /\ UNCHANGED <<pc, ret, created>>
    /\ UNCHANGED <<tokens, clock>>

(* ------------------------------ other methods -------------------------- *)

HasToken(c, name) ==
    Query(c, [op |-> "hasToken", threw |-> "", name |-> name,
              val |-> hasToken(tokens, name)])

GetOptionalToken(c, name) ==
    Query(c, [op |-> "getOptionalToken", threw |-> "", name |-> name,
              val |-> getOptionalToken(tokens, rights, name)])

\* getToken handing back the absent marker instead of throwing.
GetTokenNoThrow(c, name) ==
    Query(c, [op |-> "getToken", threw |-> "", name |-> name,
              val |-> getOptionalToken(tokens, rights, name)])

GetToken(c, name) ==
    LET token == getOptionalToken(tokens, rights, name)
    IN  IF token = Undefined
        THEN Query(c, [op |-> "getToken", threw |-> "does not exist", name |-> name])
        ELSE Query(c, [op |-> "getToken", threw |-> "", name |-> name, val |-> token])

\* One DELETE statement; the cascade is part of it.
DeleteToken(c, name) ==
    /\ pc[c] = "idle"
    /\ LET changes == Cardinality(SelectTokenFromName(tokens, name))
       IN  /\ tokens' = DeleteTokenFromName(tokens, name)
           /\ rights' = IF changes > 0 THEN CascadeRights(rights, name) ELSE rights
           /\ ret' = [op |-> "deleteToken", threw |-> "", name |-> name,
                      val |-> changes > 0]
    /\ created' = {r \in created : r.name # name}
    /\ UNCHANGED <<clock, pc, call>>

\* listTokens deleting the expired records before it lists.
ListTokensSweeping(c) ==
    LET kept == {i \in DOMAIN tokens :
                    tokens[i].expiration > NowSeconds \/ tokens[i].expiration = 0}
        tk == SelectSeq2(tokens, kept, 1)
        rt == {r \in rights : \E i \in kept : tokens[i].name = r.name}
    IN  /\ pc[c] = "idle"
        /\ tokens' = tk
        /\ rights' = rt
        /\ ret' = [op |-> "listTokens", threw |-> "", val |-> listTokens(tk, rt)]
        /\ UNCHANGED <<clock, pc, call, created>>

ListTokens(c) ==
    Query(c, [op |-> "listTokens", threw |-> "", val |-> listTokens(tokens, rights)])

\* The validity check deleting the expired record it has just refused.
VerifyTokenValidityPurging(c, token) ==
    LET gone == {tokens[i].name : i \in {j \in DOMAIN tokens :
                    /\ tokens[j].token = token
                    /\ ~verifyTokenValidity(tokens, token, NowSeconds)}}
    IN  /\ pc[c] = "idle"
        /\ ret' = [op |-> "verifyTokenValidity", threw |-> "", token |-> token,
                   val |-> verifyTokenValidity(tokens, token, NowSeconds)]
        /\ tokens' = SelectSeq2(tokens, {i \in DOMAIN tokens : tokens[i].name \notin gone}, 1)
        /\ rights' = {r \in rights : r.name \notin gone}
        /\ UNCHANGED <<clock, pc, call, created>>

VerifyTokenValidity(c, token) ==
    Query(c, [op |-> "verifyTokenValidity", threw |-> "", token |-> token,
              val |-> verifyTokenValidity(tokens, token, NowSeconds)])

VerifyTokenRight(c, token, right) ==
    Query(c, [op |-> "verifyTokenRight", threw |-> "", token |-> token,
              right |-> right,
              val |-> verifyTokenRight(tokens, rights, token, right)])

Tick ==
    /\ clock < MaxClock
    /\ clock' = clock + 1
    /\ UNCHANGED <<tokens, rights, pc, call, ret, created>>

(* ---------------------------- specifications --------------------------- *)

\* A step whose deletions are not recorded.
Untracked(A) == A /\ UNCHANGED deleted

\* A step whose deletion is recorded: the row that left tokens, with the rights
\* it had; a later insert of the same secret is noted.
Tracked(A) ==
    /\ A
    /\ LET gone == {i \in DOMAIN tokens : \A j \in DOMAIN tokens' : tokens'[j] # tokens[i]}
           new == {j \in DOMAIN tokens' : \A i \in DOMAIN tokens : tokens[i] # tokens'[j]}
       IN  IF gone # {}
           THEN LET i == CHOOSE x \in gone : TRUE
                IN  deleted' = [name |-> tokens[i].name, token |-> tokens[i].token,
                                rights |-> {r.right : r \in {x \in rights : x.name = tokens[i].name}},
                                again |-> FALSE]
           ELSE IF \E j \in new : tokens'[j].token = deleted.token
           THEN deleted' = [deleted EXCEPT !.again = TRUE]
           ELSE UNCHANGED deleted

\* The methods of the class, run by caller c.
Method(c) ==
    \/ Untracked(\E opts \in GenerateTokenOptions : GenerateTokenBegin(c, opts))
    \/ Untracked(GenerateTokenInsertToken(c))
    \/ Untracked(GenerateTokenInsertRight(c))
    \/ Untracked(\E name \in Names : HasToken(c, name))
    \/ Untracked(\E name \in Names : GetToken(c, name))
    \/ Untracked(\E name \in Names : GetOptionalToken(c, name))
    \/ Untracked(\E name \in Names : DeleteToken(c, name))
    \/ Untracked(ListTokens(c))
    \/ Untracked(\E token \in TokenStrings : VerifyTokenValidity(c, token))
    \/ Untracked(\E token \in TokenStrings, right \in Rights : VerifyTokenRight(c, token, right))
    \/ Untracked(Construct(c))

\* One process: node:sqlite is synchronous, so a method runs to its end before
\* the next one starts.
Next ==
    \/ Untracked(Tick)
    \/ Method("p")

Spec == Init /\ [][Next]_vars

\* Several processes on one database file: their statements interleave.  The
\* callers compete for the names in RacedNames.
RacedNames == {"a"}

Creator(c) ==
    \/ Untracked(\E opts \in GenerateTokenOptions :
                    opts.name \in RacedNames /\ GenerateTokenBegin(c, opts))
    \/ Untracked(GenerateTokenInsertToken(c))
    \/ Untracked(GenerateTokenInsertRight(c))

NextConc ==
    \E c \in Callers :
        \/ Creator(c)
        \/ Untracked(\E name \in RacedNames : DeleteToken(c, name))

SpecConc == Init /\ [][NextConc]_vars

\* Concurrent generateToken calls alone.
NextRace == \E c \in Callers : Creator(c)

SpecRace == Init /\ [][NextRace]_vars

\* One process creating, deleting and creating again the names in RacedNames,
\* with the deletions recorded.
Life(c) ==
    \/ Tracked(\E opts \in GenerateTokenOptions :
                  opts.name \in RacedNames /\ GenerateTokenBegin(c, opts))
    \/ Tracked(GenerateTokenInsertToken(c))
    \/ Tracked(GenerateTokenInsertRight(c))
    \/ Tracked(\E name \in RacedNames : DeleteToken(c, name))
    \/ Tracked(\E name \in RacedNames : GetToken(c, name))
    \/ Tracked(\E token \in TokenStrings : VerifyTokenValidity(c, token))
    \/ Tracked(\E token \in TokenStrings, right \in Rights : VerifyTokenRight(c, token, right))

NextLife ==
    \/ Tracked(Tick)
    \/ Life("p")

SpecLife == Init /\ [][NextLife]_vars

(* ------------------------------ properties ------------------------------ *)

NameStored(n) == \E i \in DOMAIN tokens : tokens[i].name = n

RightsStored(n) == {r.right : r \in {x \in rights : x.name = n}}

AllIdle == \A c \in Callers : pc[c] = "idle"

\* C1: a generateToken call on a name that is already stored throws and leaves
\* the tokens relation, the rights relation and the result of listTokens as
\* they were, whatever rights and expiration the call supplies.
C1_DuplicateNameLeavesStoreUnchanged ==
    [][\A n \in Names :
          (/\ AllIdle
           /\ NameStored(n)
           /\ clock' = clock
           /\ \/ \E c \in Callers : pc'[c] = "insertToken" /\ call'[c].opts.name = n
              \/ AllIdle' /\ ret'.op = "generateToken" /\ ret'.name = n)
          => /\ ret'.op = "generateToken"
             /\ ret'.threw = "already exists"
             /\ AllIdle'
             /\ tokens' = tokens
             /\ rights' = rights
             /\ listTokens(tokens', rights') = listTokens(tokens, rights)]_vars

C1_Witness ==
    /\ ret.op = "generateToken"
    /\ ret.threw = "already exists"
    /\ NameStored(ret.name)
    /\ RightsStored(ret.name) # {}

\* C2: a generateToken call that fails at an insertion leaves no token row and
\* no rights row of its name, and hasToken of the name false.
C2_GenerateTokenAllOrNothing ==
    (ret.op = "generateToken" /\ ret.threw \notin {"", "already exists"})
        => /\ ~NameStored(ret.name)
           /\ RightsStored(ret.name) = {}
           /\ ~hasToken(tokens, ret.name)

\* C3: verifyTokenValidity(secret) is true exactly when a stored row has that
\* secret and an expiration that is 0 or greater than the clock's whole seconds
\* at the call.
C3_ValidityIffStoredAndNotExpired ==
    [][(ret'.op = "verifyTokenValidity" /\ clock' = clock)
          => ret'.val =
                (\E i \in DOMAIN tokens :
                    /\ tokens[i].token = ret'.token
                    /\ \/ tokens[i].expiration = 0
                       \/ tokens[i].expiration > DateNow \div 1000)]_vars

\* A stored record whose expiration is the current second is reported invalid.
C3_Witness ==
    /\ ret.op = "verifyTokenValidity"
    /\ ret.val = FALSE
    /\ \E i \in DOMAIN tokens :
          /\ tokens[i].token = ret.token
          /\ tokens[i].expiration # 0
          /\ tokens[i].expiration * 1000 <= DateNow
          /\ DateNow < (tokens[i].expiration + 1) * 1000

\* C4: verifyTokenRight(secret, right) is true exactly when a stored row has
\* that secret and the rights relation holds (its name, right), whatever the
\* expiration of the row and the clock.
C4_RightIffStoredAndGranted ==
    ret.op = "verifyTokenRight"
        => ret.val =
              (\E i \in DOMAIN tokens :
                  /\ tokens[i].token = ret.token
                  /\ [name |-> tokens[i].name, right |-> ret.right] \in rights)

\* An expired record that holds the right still verifies it.
C4_Witness ==
    /\ ret.op = "verifyTokenRight"
    /\ ret.val = TRUE
    /\ \E i \in DOMAIN tokens :
          /\ tokens[i].token = ret.token
          /\ tokens[i].expiration # 0
          /\ tokens[i].expiration * 1000 < DateNow

\* C5: after a generateToken call that returned, getToken of its name gives the
\* name, the expiration given (0 when none was given) and the rights given, as
\* a set.
C5_GenerateThenGetToken ==
    (ret.op = "generateToken" /\ ret.threw = "")
        => LET token == getOptionalToken(tokens, rights, ret.args.name)
           IN  /\ token # Undefined
               /\ token.name = ret.args.name
               /\ token.expiration =
                     (IF "expiration" \in DOMAIN ret.args THEN ret.args.expiration ELSE 0)
               /\ SeqToSet(token.rights) = SeqToSet(ret.args.rights)

\* Rights given out of order, and no expiration.
C5_Witness ==
    /\ ret.op = "generateToken"
    /\ ret.threw = ""
    /\ ret.args.rights = <<2, 1>>
    /\ "expiration" \notin DOMAIN ret.args

\* The tokens relation with every secret replaced by its image under f.
Resecret(tk, f) ==
    [i \in DOMAIN tk |-> [tk[i] EXCEPT !.token = TokenString(f[tk[i].token[2]])]]

\* C6: getToken, getOptionalToken and listTokens hand back no secret: their
\* results carry no token field and are the same on every store that differs
\* from this one in its secrets only.
C6_LookupsHideSecret ==
    /\ \A f \in Permutations(RandomValues) :
          /\ listTokens(Resecret(tokens, f), rights) = listTokens(tokens, rights)
          /\ \A n \in Names :
                getOptionalToken(Resecret(tokens, f), rights, n)
                    = getOptionalToken(tokens, rights, n)
    /\ \A n \in Names : "token" \notin DOMAIN getOptionalToken(tokens, rights, n)
    /\ \A i \in DOMAIN tokens : "token" \notin DOMAIN listTokens(tokens, rights)[i]
    /\ (ret.op \in {"getToken", "getOptionalToken"} /\ ret.threw = "")
          => "token" \notin DOMAIN ret.val
    /\ ret.op = "listTokens" => \A i \in DOMAIN ret.val : "token" \notin DOMAIN ret.val[i]

C6_Witness ==
    /\ ret.op = "listTokens"
    /\ Len(ret.val) = 2
    /\ tokens[1].token # tokens[2].token

\* C7: hasToken is false for every name at the start, turns true only by a
\* generateToken call of the name, is true after generateToken returned, false
\* after deleteToken; deleteToken returns whether the name was stored, and
\* hasToken returns whether it is stored, expired or not.
C7_HasTokenFollowsCreateAndDelete ==
    /\ \A n \in Names : ~hasToken(tokens, n)
    /\ [][\A n \in Names :
             /\ (ret'.op = "generateToken" /\ ret'.threw = "" /\ ret'.name = n)
                   => hasToken(tokens', n)
             /\ (ret'.op = "deleteToken" /\ ret'.name = n /\ clock' = clock)
                   => (ret'.val = NameStored(n) /\ ~hasToken(tokens', n))
             /\ (ret'.op = "hasToken" /\ ret'.name = n)
                   => ret'.val = (\E i \in DOMAIN tokens' : tokens'[i].name = n)
             /\ (~hasToken(tokens, n) /\ hasToken(tokens', n))
                   => \E c \in Callers :
                         pc[c] = "insertToken" /\ call[c].opts.name = n]_vars

\* hasToken answers true for a record that has expired.
C7_Witness ==
    /\ ret.op = "hasToken"
    /\ ret.val = TRUE
    /\ \E i \in DOMAIN tokens :
          /\ tokens[i].name = ret.name
          /\ tokens[i].expiration # 0
          /\ tokens[i].expiration * 1000 < DateNow

\* C8: between calls, listTokens holds one safe view, with the rights given,
\* for each name whose generateToken returned and that was not deleted since,
\* and nothing else.
C8_ListTokensIsTheCreatedNames ==
    AllIdle =>
        LET list == listTokens(tokens, rights)
        IN  /\ Len(list) = Cardinality(created)
            /\ \A i \in DOMAIN list :
                  \E r \in created :
                      /\ r.name = list[i].name
                      /\ r.expiration = list[i].expiration
                      /\ r.rights = SeqToSet(list[i].rights)
            /\ \A r \in created : \E i \in DOMAIN list : list[i].name = r.name

\* C9: of the generateToken calls racing for a name at most one returns a
\* record, and the stored record has the secret, expiration and rights of that
\* call.
C9_OneRacingCreateWins ==
    /\ \A r1 \in created, r2 \in created : r1.name = r2.name => r1 = r2
    /\ \A r \in created :
          /\ \E i \in DOMAIN tokens :
                tokens[i] = [name |-> r.name, expiration |-> r.expiration,
                             token |-> r.token]
          /\ Cardinality({i \in DOMAIN tokens : tokens[i].name = r.name}) = 1
          /\ RightsStored(r.name) = r.rights

\* One caller has returned the record of a name, and the call that lost the
\* race for it threw at its insert.
C9_Witness ==
    /\ ret.op = "generateToken"
    /\ ret.threw = "UNIQUE constraint failed: tokens.name"
    /\ \E r \in created : r.name = ret.name

\* C10: every rights row has the name of a tokens row, in every state.
C10_RightsReferenceTokens ==
    \A r \in rights : \E i \in DOMAIN tokens : tokens[i].name = r.name

\* A record is deleted while another caller is in the loop over its rights.
C10_Witness ==
    /\ ret.op = "deleteToken"
    /\ ret.val = TRUE
    /\ ~NameStored(ret.name)
    /\ \E c \in Callers :
          pc[c] = "insertRight" /\ call[c].opts.name = ret.name /\ call[c].i > 1

\* C11: no two tokens rows share a name or a secret; a generateToken insert
\* either adds one row whose secret no stored row has, or, when the generated
\* secret is already stored, throws and leaves no row and no right of its name
\* and the store as it was.
C11_SecretsAndNamesUnique ==
    /\ [](\A i \in DOMAIN tokens, j \in DOMAIN tokens :
             i # j => (tokens[i].name # tokens[j].name /\ tokens[i].token # tokens[j].token))
    /\ [][\A c \in Callers :
             (pc[c] = "insertToken" /\ pc'[c] # "insertToken")
                => \/ /\ Len(tokens') = Len(tokens) + 1
                      /\ \A i \in DOMAIN tokens : tokens'[i] = tokens[i]
                      /\ tokens'[Len(tokens')].name = call[c].opts.name
                      /\ \A i \in DOMAIN tokens :
                            tokens[i].token # tokens'[Len(tokens')].token
                   \/ /\ tokens' = tokens
                      /\ rights' = rights
                      /\ pc'[c] = "idle"
                      /\ ret'.op = "generateToken"
                      /\ ret'.threw # ""
                      /\ ~NameStored(call[c].opts.name)'
                      /\ RightsStored(call[c].opts.name)' = {}]_vars

\* The generated secret was that of the other record: the call threw.
C11_Witness ==
    /\ ret.op = "generateToken"
    /\ ret.threw = "UNIQUE constraint failed: tokens.token"
    /\ ~NameStored(ret.name)
    /\ Len(tokens) = 1

\* C12: for every name, getToken fails iff getOptionalToken is the absent marker
\* iff hasToken is false, and a getToken that succeeds returns the view
\* getOptionalToken returns; hasToken, deleteToken, getOptionalToken,
\* verifyTokenValidity and verifyTokenRight never throw: an absent name or an
\* unknown secret is reported as false or as the absent marker.
C12_AbsenceIsReportedConsistently ==
    /\ \A n \in Names :
          (getOptionalToken(tokens, rights, n) = Undefined) <=> ~hasToken(tokens, n)
    /\ ret.op = "getToken" =>
          /\ (ret.threw # "") <=> (getOptionalToken(tokens, rights, ret.name) = Undefined)
          /\ (ret.threw # "") <=> ~hasToken(tokens, ret.name)
          /\ ret.threw # "" => ret.threw = "does not exist"
          /\ ret.threw = "" => ret.val = getOptionalToken(tokens, rights, ret.name)
    /\ ret.op \in {"hasToken", "deleteToken", "getOptionalToken",
                   "verifyTokenValidity", "verifyTokenRight"} => ret.threw = ""
    /\ ret.op = "hasToken" => ret.val = NameStored(ret.name)
    /\ ret.op = "deleteToken" => ret.val \in BOOLEAN /\ ~NameStored(ret.name)
    /\ (ret.op = "getOptionalToken" /\ ~NameStored(ret.name)) => ret.val = Undefined
    /\ (ret.op \in {"verifyTokenValidity", "verifyTokenRight"}
          /\ \A i \in DOMAIN tokens : tokens[i].token # ret.token) => ret.val = FALSE

\* getToken has thrown for a name that is not stored while another record is.
C12_Witness ==
    /\ ret.op = "getToken"
    /\ ret.threw = "does not exist"
    /\ ~NameStored(ret.name)
    /\ Len(tokens) = 1

\* A stored row whose non-zero expiration has passed.
Expired(i) == tokens[i].expiration # 0 /\ tokens[i].expiration <= NowSeconds

\* C13: a record whose non-zero expiration has passed fails verifyTokenValidity
\* and is still returned, with its rights, by hasToken, getOptionalToken (hence
\* getToken) and listTokens; a token row leaves the store only in a deleteToken
\* step for its name, which returns true.
C13_ExpirationNeverRemoves ==
    /\ [](\A i \in DOMAIN tokens : Expired(i) =>
             /\ ~verifyTokenValidity(tokens, tokens[i].token, NowSeconds)
             /\ hasToken(tokens, tokens[i].name)
             /\ getOptionalToken(tokens, rights, tokens[i].name)
                   = [name |-> tokens[i].name, expiration |-> tokens[i].expiration,
                      rights |-> SortedSeq(RightsStored(tokens[i].name))]
             /\ \E j \in DOMAIN listTokens(tokens, rights) :
                   listTokens(tokens, rights)[j]
                      = getOptionalToken(tokens, rights, tokens[i].name))
    /\ [][\A i \in DOMAIN tokens :
             (\A j \in DOMAIN tokens' : tokens'[j] # tokens[i])
                => /\ ret'.op = "deleteToken"
                   /\ ret'.name = tokens[i].name
                   /\ ret'.val = TRUE]_vars
    /\ [][(ret'.op = "getToken" /\ ret' # ret /\ \E i \in DOMAIN tokens :
                                     Expired(i) /\ tokens[i].name = ret'.name)
             => /\ ret'.threw = ""
                /\ ret'.val.rights = SortedSeq(RightsStored(ret'.name))]_vars

\* getToken returned an expired record with a right, after a validity check
\* of its secret would fail.
C13_Witness ==
    /\ ret.op = "getToken"
    /\ ret.threw = ""
    /\ ret.val.rights # <<>>
    /\ \E i \in DOMAIN tokens :
          /\ tokens[i].name = ret.name
          /\ Expired(i)
          /\ ~verifyTokenValidity(tokens, tokens[i].token, NowSeconds)

\* C14: constructing another AuthDatabase over a store that holds the schema
\* and records leaves every token row and every rights row as it was, and
\* every query answers after it as it answered before it.
C14_InitializationIsIdempotent ==
    [][ret'.op = "constructor" /\ clock' = clock =>
          /\ tokens' = tokens
          /\ rights' = rights
          /\ listTokens(tokens', rights') = listTokens(tokens, rights)
          /\ \A n \in Names :
                /\ hasToken(tokens', n) = hasToken(tokens, n)
                /\ getOptionalToken(tokens', rights', n) = getOptionalToken(tokens, rights, n)
          /\ \A s \in TokenStrings :
                /\ verifyTokenValidity(tokens', s, NowSeconds')
                      = verifyTokenValidity(tokens, s, NowSeconds)
                /\ \A r \in Rights :
                      verifyTokenRight(tokens', rights', s, r)
                         = verifyTokenRight(tokens, rights, s, r)]_vars

\* A second instance was constructed over a store holding two records, one
\* with rights.
C14_Witness ==
    /\ ret.op = "constructor"
    /\ Len(tokens) = 2
    /\ rights # {}

\* C15: in every state, a stored record carries exactly the rights, the secret
\* and the expiration of the generateToken call that inserted its row, whether
\* that call is still between its statements or has returned.
C15_StoredRecordIsItsCreation ==
    \A i \in DOMAIN tokens :
        /\ \A c \in Callers :
              (/\ pc[c] = "insertRight"
               /\ call[c].opts.name = tokens[i].name
               /\ call[c].token = tokens[i].token)
                 => /\ RightsStored(tokens[i].name) = SeqToSet(call[c].opts.rights)
                    /\ tokens[i].expiration = call[c].expiration
        /\ \A r \in created :
              (r.name = tokens[i].name /\ r.token = tokens[i].token)
                 => /\ RightsStored(tokens[i].name) = r.rights
                    /\ tokens[i].expiration = r.expiration

\* C16: deleteToken(n) returns true iff a token row named n was stored just
\* before; it removes that row and the rights rows of n, and keeps every other
\* token row (in order) and every other rights row; called again directly
\* after a deleteToken(n), it returns false and changes nothing.
C16_DeleteTokenRemovesExactlyOneRecord ==
    [][\A n \in Names :
          (ret'.op = "deleteToken" /\ ret'.name = n /\ clock' = clock) =>
             /\ ret'.threw = ""
             /\ ret'.val = NameStored(n)
             /\ \A j \in DOMAIN tokens' : tokens'[j].name # n
             /\ \A r \in rights' : r.name # n
             /\ tokens' = SelectSeq2(tokens, {i \in DOMAIN tokens : tokens[i].name # n}, 1)
             /\ rights' = {r \in rights : r.name # n}
             /\ \A m \in Names \ {n} :
                   /\ getOptionalToken(tokens', rights', m)
                         = getOptionalToken(tokens, rights, m)
                   /\ SelectTokenFromName(tokens', m) # {} =>
                         \E i \in DOMAIN tokens, j \in DOMAIN tokens' :
                            tokens[i].name = m /\ tokens'[j] = tokens[i]
             /\ (ret.op = "deleteToken" /\ ret.name = n) =>
                   (ret'.val = FALSE /\ tokens' = tokens /\ rights' = rights)]_vars

\* deleteToken returned true and the other record is still stored with a right.
C16_Witness ==
    /\ ret.op = "deleteToken"
    /\ ret.val = TRUE
    /\ Len(tokens) = 1
    /\ tokens[1].name # ret.name
    /\ RightsStored(tokens[1].name) # {}

QueryOps ==
    {"hasToken", "getToken", "getOptionalToken", "listTokens",
     "verifyTokenValidity", "verifyTokenRight"}

\* C17: a step in which hasToken, getToken, getOptionalToken, listTokens,
\* verifyTokenValidity or verifyTokenRight answers, whether it returns or
\* throws, leaves tokens and rights unchanged; tokens or rights change only
\* in a deleteToken step or in an insert statement of a generateToken call.
C17_QueriesLeaveTheStoreUnchanged ==
    /\ [][(ret'.op \in QueryOps /\ clock' = clock)
             => (tokens' = tokens /\ rights' = rights)]_vars
    /\ [][(tokens' # tokens \/ rights' # rights)
             => \/ ret'.op = "deleteToken" /\ ret'.val = TRUE
                \/ \E c \in Callers :
                      /\ pc[c] \in {"insertToken", "insertRight"}
                      /\ (pc'[c] # pc[c] \/ call'[c] # call[c])]_vars

\* getToken has thrown over a store that holds a record with a right.
C17_Witness ==
    /\ ret.op = "getToken"
    /\ ret.threw # ""
    /\ tokens # <<>>
    /\ rights # {}

\* C20: the clock never goes backwards; a stored record whose secret fails
\* verifyTokenValidity fails it after every step that keeps its row, and a
\* verifyTokenValidity call that follows a false one for the same stored
\* secret returns false; a stored record with expiration 0 is valid in every
\* state.
C20_ValidityIsMonotone ==
    /\ [][clock' >= clock]_vars
    /\ [][\A i \in DOMAIN tokens :
             (/\ \E j \in DOMAIN tokens' : tokens'[j] = tokens[i]
              /\ ~verifyTokenValidity(tokens, tokens[i].token, NowSeconds))
                => ~verifyTokenValidity(tokens', tokens[i].token, NowSeconds')]_vars
    /\ [][(/\ ret.op = "verifyTokenValidity"
           /\ ret'.op = "verifyTokenValidity"
           /\ ret'.token = ret.token
           /\ ret.val = FALSE
           /\ \E i \in DOMAIN tokens : tokens[i].token = ret.token)
             => ret'.val = FALSE]_vars
    /\ [](\A i \in DOMAIN tokens :
             tokens[i].expiration = 0
                => verifyTokenValidity(tokens, tokens[i].token, NowSeconds))

\* After the last tick, verifyTokenValidity returned false for the secret of
\* a stored record, next to a stored record that never expires.
C20_Witness ==
    /\ clock = MaxClock
    /\ ret.op = "verifyTokenValidity"
    /\ ret.val = FALSE
    /\ \E i \in DOMAIN tokens, j \in DOMAIN tokens :
          /\ tokens[i].token = ret.token
          /\ tokens[i].expiration # 0
          /\ tokens[j].expiration = 0

\* C18: the secret of the record that a deleteToken returning true removes
\* verifies neither validity nor any right right after that step, nor in any
\* later state reached without the generator issuing that secret again, and a
\* verifyTokenValidity or verifyTokenRight answer for it is false.
C18_DeletionRevokesTheSecret ==
    /\ [][\A i \in DOMAIN tokens :
             (/\ ret'.op = "deleteToken"
              /\ ret'.val = TRUE
              /\ ret'.name = tokens[i].name
              /\ clock' = clock)
                => /\ deleted'.token = tokens[i].token
                   /\ ~deleted'.again
                   /\ ~verifyTokenValidity(tokens', tokens[i].token, NowSeconds')
                   /\ \A r \in Rights :
                         ~verifyTokenRight(tokens', rights', tokens[i].token, r)]_vars
    /\ []((deleted # NoDeleted /\ ~deleted.again) =>
             /\ ~verifyTokenValidity(tokens, deleted.token, NowSeconds)
             /\ \A r \in Rights : ~verifyTokenRight(tokens, rights, deleted.token, r)
             /\ (ret.op \in {"verifyTokenValidity", "verifyTokenRight"}
                   /\ ret.token = deleted.token) => ret.val = FALSE)

\* After the deletion the name was created again with another secret and the
\* same right, and verifyTokenRight refused the deleted secret for that right.
C18_Witness ==
    /\ deleted # NoDeleted
    /\ ~deleted.again
    /\ ret.op = "verifyTokenRight"
    /\ ret.token = deleted.token
    /\ ret.right \in deleted.rights
    /\ ret.val = FALSE
    /\ NameStored(deleted.name)
    /\ ret.right \in RightsStored(deleted.name)

\* The name of the record deleted last has been created again: the latest
\* call is a generateToken of that name that returned.
Recreated ==
    /\ ret.op = "generateToken"
    /\ ret.threw = ""
    /\ deleted # NoDeleted
    /\ deleted.name = ret.name

\* The new record has the rights of the second call and none of the first
\* call's other rights.
NewRecordHasOnlyNewRights ==
    /\ getOptionalToken(tokens, rights, ret.name) # Undefined
    /\ SeqToSet(getOptionalToken(tokens, rights, ret.name).rights)
          = SeqToSet(ret.args.rights)
    /\ \A r \in deleted.rights \ SeqToSet(ret.args.rights) :
          ~verifyTokenRight(tokens, rights, ret.val.token, r)

OldSecretVerifiesNothing ==
    /\ ~verifyTokenValidity(tokens, deleted.token, NowSeconds)
    /\ \A r \in Rights : ~verifyTokenRight(tokens, rights, deleted.token, r)

====
